---- MODULE Spec2Model ----
(***************************************************************************)
(* Agent orchestration substrate of Web-DISK: the Redis channel bus, the   *)
(* BaseAgent receive loop with its handlers, and the TaskCoordinator that  *)
(* drives distill -> extract -> quality -> merge -> store by request/reply *)
(* (src/unnamed/part_000, sections agents/base.py .. agents/coordinator.py)*)
(*                                                                         *)
(* Conventions.  A JSON object is a TLA+ record; dict.get(key, default) is *)
(* Get.  Timestamps, target and metadata of an envelope are never read by  *)
(* any code modelled here and are left out.  Every bus entry carries, next *)
(* to the envelope, a history tag "mid" that the program never reads: who  *)
(* published it and for which request.  BaseAgent.send reads time.time();   *)
(* the listing of agents/base.py shows no "import time": send is modelled   *)
(* as written, with the clock available.                                    *)
(***************************************************************************)
EXTENDS Integers, Sequences, FiniteSets, TLC

\* ------------------------------------------------------------------ bounds

\* Largest number of text blocks the distillation service returns for a PDF.
MaxChunks == 3

\* Largest number of envelopes the external sender publishes.
MaxClient == 2

\* TaskCoordinator(batch_size=...): 32 by default, 2 here so that a document
\* of MaxChunks chunks is processed in more than one batch.
batch_size == 2

\* ------------------------------------------------------------ names

\* uuid4 task ids of the runs (process_pdf calls); distinct by construction.
Tasks == {"t1", "t2"}

\* Agent processes.  extractor_00/extractor_01 are two of the numprocs
\* processes of [program:disk-extractor]; both run ExtractorAgent with
\* agent_id "extractor".  distiller_doc is a Distiller worker that emits the
\* output message exactly as the design document specifies it (flat JSON).
AllInstances ==
    {"distiller", "distiller_doc", "extractor_00", "extractor_01",
     "quality", "merger", "storage"}

agent_id(a) ==
    CASE a \in {"distiller", "distiller_doc"} -> "distiller"
      [] a \in {"extractor_00", "extractor_01"} -> "extractor"
      [] OTHER -> a

Calls == <<"distill", "extract", "quality", "merge", "store">>

NoChannel == <<>>
NoMsg == [none |-> TRUE]

input_channel(id) == <<"agent", id, "input">>
output_channel(id) == <<"agent", id, "output">>

\* dict.get(key, default)
Get(d, key, default) == IF key \in DOMAIN d THEN d[key] ELSE default

Min(x, y) == IF x < y THEN x ELSE y

VARIABLES
    deployed,     \* the agent processes of this deployment
    running,      \* BaseAgent.running, per process
    apc,          \* per process: "new" | "idle" (in pubsub.listen) | "busy" | "exited"
    cur,          \* per process: the bus entry whose handler is running
    subs,         \* bus: subscriber -> set of channels
    inbox,        \* bus: subscriber -> entries delivered and not yet read
    pc,           \* per task: position of process_pdf
    call,         \* per task: the request/reply helper being executed
    task_status,  \* TaskCoordinator.task_status[task_id]
    loc,          \* per task: local variables of process_pdf
    ret,          \* per task: what process_pdf gave its caller
    nclient,      \* envelopes published by the external sender so far
    health,       \* check_agents_health: position, agent index, health_status
    cpc,          \* the external sender: "idle" | "listen" (awaiting the reply)
    sent,         \* history: <<mid, channel, type, envelope, request, running>> published
    reqlog,       \* history, per task: requests published, in order
    progress_log, \* per task: the calls progress_callback has received
    consumed,     \* history, per task: <<request mid, reply mid>> consumed
    snap,         \* history: <<mid, subscriber, epoch>> subscribed at publication
    got,          \* history: <<mid, subscriber, epoch>> read by the subscriber
    epoch,        \* history, per subscriber: number of pubsub objects created
    failed_once,  \* history: processes one of whose handlers has raised
    connector,    \* per process: the Neo4jConnector of the last store handler
    clients,      \* history, per process: Extractor clients created
    page          \* the pipeline monitor page (PipelineView) of the frontend

busvars == <<subs, inbox, snap, got, epoch>>
agentvars == <<running, apc, cur, sent, failed_once, connector, clients>>
coordvars == <<pc, call, task_status, loc, ret, reqlog, consumed, progress_log>>
clientvars == <<nclient, cpc, health>>
\* what no step of an agent, a coordinator run or a bus client changes
static == <<deployed, page>>
\* the agents, the bus and its clients
backend == <<deployed, busvars, agentvars, coordvars, clientvars>>
vars == <<static, busvars, agentvars, coordvars, clientvars>>

Subscribers == AllInstances \cup Tasks \cup {"client", "health"}

\* ------------------------------------------------------------------- bus

\* a bus that hands a publication to every client, subscribed or not
DeliverToAll(box, ch, e) ==
    [s \in Subscribers |-> Append(box[s], e)]

\* redis PUBLISH: the entry is queued for every subscriber subscribed to the
\* channel now, and for nobody else.
Deliver(box, ch, e) ==
    [s \in Subscribers |-> IF ch \in subs[s] THEN Append(box[s], e) ELSE box[s]]

\* history of a publication: who was subscribed
Snapshot(ch, e) ==
    snap \cup {<<e.mid, s, epoch[s]>> : s \in {x \in Subscribers : ch \in subs[x]}}

\* ------------------------------------------------------------ BaseAgent

\* self._message_handlers once the constructor and start() have registered
_message_handlers(a) ==
    {"ping", "shutdown"} \cup
    (CASE agent_id(a) = "distiller" -> {"distill"}
       [] agent_id(a) = "extractor" -> {"extract", "extract_batch"}
       [] agent_id(a) = "quality" -> {"quality_check"}
       [] agent_id(a) = "merger" -> {"merge"}
       [] agent_id(a) = "storage" -> {"store"})

\* AgentMessage(**data): pydantic accepts the object only with its required fields
AgentMessage(data) ==
    {"task_id", "type", "source", "payload"} \subseteq DOMAIN data

\* enumerate(text_blocks): the chunk list of a document of n text blocks
ChunkList(n) == [j \in 1..n |-> [index |-> j - 1, content |-> "alpha"]]

\* What a handler can return for request m (its dict), by message type.
_handle_ping(a, m) == {[type |-> "pong", agent_id |-> agent_id(a)]}

\* _handle_shutdown calls stop() (see stop) and returns the ack
_handle_shutdown(a, m) == {[type |-> "shutdown_ack", agent_id |-> agent_id(a)]}

_handle_distill(a, m) ==
    {[type |-> "text_chunks", task_id |-> m.task_id, chunks |-> ChunkList(n)]
        : n \in 0..MaxChunks}

\* Entity and relation dicts.  A name or a label is the sequence of its
\* characters; a description is "" or a text.
Ann == [name |-> <<"A", "n", "n">>, label |-> <<"P">>, description |-> "d"]
Bob == [name |-> <<"B", "o", "b">>, label |-> <<"P">>, description |-> ""]

EndPoint(e) == [name |-> e.name, label |-> e.label]

AnnBob == [start_entity |-> EndPoint(Ann), end_entity |-> EndPoint(Bob),
           label |-> <<"R">>, name |-> <<"k", "n", "o", "w", "s">>,
           description |-> "d"]

\* Extractor.extract_relations_and_entities(text, pdf_path): what the
\* extraction library gives for a text, one of
\*   [kind |-> "ok", relations, entities], [kind |-> "none"] (it returns
\*   None), [kind |-> "raise"] (it raises).
_extract_sync(text) ==
    CASE text = "alpha" -> [kind |-> "ok", relations |-> <<>>, entities |-> <<Ann>>]
      [] text = "beta" -> [kind |-> "ok", relations |-> <<AnnBob>>,
                           entities |-> <<Bob, Ann>>]
      [] text = "blank" -> [kind |-> "none"]
      [] OTHER -> [kind |-> "raise"]

\* ExtractorAgent._handle_extract for one chunk: its dict, or the exception
\* that asyncio.gather(return_exceptions=True) puts in its place.
_handle_extract(task_id, chunk) ==
    LET result == _extract_sync(chunk.content)
    IN  CASE result.kind = "raise" -> [exception |-> "Exception"]
          [] result.kind = "none" ->
                [type |-> "extraction_result", task_id |-> task_id,
                 chunk_index |-> chunk.index, status |-> "failed",
                 entities |-> <<>>, relations |-> <<>>]
          [] OTHER ->
                [type |-> "extraction_result", task_id |-> task_id,
                 chunk_index |-> chunk.index, status |-> "success",
                 entities |-> result.entities, relations |-> result.relations]

\* ExtractorAgent._handle_extract as the handler of an "extract" message:
\* the dicts it can return; none when it raises (no chunk in the payload, or
\* the extraction raises).
_handle_extract_msg(a, m) ==
    IF "chunk" \notin DOMAIN m.payload THEN {}
    ELSE LET r == _handle_extract(m.task_id, m.payload.chunk)
         IN  IF "exception" \in DOMAIN r THEN {} ELSE {r}

\* all_entities.extend(...) / all_relations.extend(...) over the results
RECURSIVE Extend(_, _)
Extend(results, key) ==
    IF results = <<>> THEN <<>>
    ELSE (IF Get(Head(results), "status", "") = "success"
            THEN Get(Head(results), key, <<>>) ELSE <<>>)
         \o Extend(Tail(results), key)

_handle_extract_batch(a, m) ==
    LET chunks == Get(m.payload, "chunks", <<>>)
        results == [i \in 1..Len(chunks) |-> _handle_extract(m.task_id, chunks[i])]
        failed_indices == {i \in 1..Len(chunks) : "exception" \in DOMAIN results[i]}
        all_entities == Extend(results, "entities")
        all_relations == Extend(results, "relations")
    IN  {[type |-> "batch_extraction_result", task_id |-> m.task_id,
          entities |-> all_entities, relations |-> all_relations,
          statistics |->
              [total_chunks |-> Len(chunks),
               successful |-> Len(chunks) - Cardinality(failed_indices),
               failed |-> Cardinality(failed_indices),
               total_entities |-> Len(all_entities),
               total_relations |-> Len(all_relations)]]}

\* QualityAgent(confidence_threshold=0.6), in hundredths
confidence_threshold == 60

\* Python's None where dict.get finds no key
None == <<"None">>

\* str.strip(): leading and trailing blanks removed
RECURSIVE LStrip(_)
LStrip(t) == IF t # <<>> /\ Head(t) = " " THEN LStrip(Tail(t)) ELSE t

RECURSIVE RStrip(_)
RStrip(t) ==
    IF t # <<>> /\ t[Len(t)] = " " THEN RStrip(SubSeq(t, 1, Len(t) - 1)) ELSE t

strip(t) == RStrip(LStrip(t))

\* a variant of _check_entity that does not look at the name's length
_check_entity_label_only(entity) ==
    LET label == Get(entity, "label", <<>>)
    IN  IF label = <<>> \/ strip(label) = <<>> THEN <<"Missing label">> ELSE <<>>

\* QualityAgent._check_entity: the list of issues
_check_entity(entity) ==
    LET name == Get(entity, "name", <<>>)
        label == Get(entity, "label", <<>>)
    IN  (IF Len(name) < 2 THEN <<"Name too short">> ELSE <<>>)
        \o (IF label = <<>> \/ strip(label) = <<>> THEN <<"Missing label">> ELSE <<>>)
        \o (IF \E j \in 1..Len(name) : name[j] \in {"\n", "\r", "\t"}
              THEN <<"Invalid characters in name">> ELSE <<>>)

\* QualityAgent._check_relation: the list of issues
_check_relation(relation, entities) ==
    LET start_name == Get(Get(relation, "start_entity", [x |-> 0]), "name", None)
        end_name == Get(Get(relation, "end_entity", [x |-> 0]), "name", None)
        valid_names == {Get(entities[j], "name", None) : j \in 1..Len(entities)}
    IN  (IF start_name \notin valid_names THEN <<"Start entity not found">> ELSE <<>>)
        \o (IF end_name \notin valid_names THEN <<"End entity not found">> ELSE <<>>)
        \o (IF start_name = end_name THEN <<"Self-referential relation">> ELSE <<>>)

\* sum of the scores of a list, in tenths: 10 with a description, else w
RECURSIVE Scores(_, _)
Scores(items, w) ==
    IF items = <<>> THEN 0
    ELSE (IF Get(Head(items), "description", "") # "" THEN 10 ELSE w)
         + Scores(Tail(items), w)

\* a variant of _calculate_confidence that divides by the number of entities
_calculate_confidence_per_entity(entities, relations) ==
    IF entities = <<>> /\ relations = <<>>
      THEN [num |-> 0, den |-> 1]
      ELSE [num |-> Scores(entities, 7) + Scores(relations, 8),
            den |-> 10 * Len(entities)]

\* QualityAgent._calculate_confidence: sum(all_scores) / len(all_scores), as
\* the fraction num/den
_calculate_confidence(entities, relations) ==
    IF entities = <<>> /\ relations = <<>>
      THEN [num |-> 0, den |-> 1]
      ELSE [num |-> Scores(entities, 7) + Scores(relations, 8),
            den |-> 10 * (Len(entities) + Len(relations))]

\* rejected_reasons.extend(...) over the entities, and over the relations
RECURSIVE EntityReasons(_)
EntityReasons(items) ==
    IF items = <<>> THEN <<>>
    ELSE _check_entity(Head(items)) \o EntityReasons(Tail(items))

RECURSIVE RelationReasons(_, _)
RelationReasons(items, entities) ==
    IF items = <<>> THEN <<>>
    ELSE _check_relation(Head(items), entities)
         \o RelationReasons(Tail(items), entities)

_handle_quality_check(a, m) ==
    LET entities == Get(m.payload, "entities", <<>>)
        relations == Get(m.payload, "relations", <<>>)
        approved_entities == SelectSeq(entities, LAMBDA e : _check_entity(e) = <<>>)
        approved_relations ==
            SelectSeq(relations,
                      LAMBDA r : _check_relation(r, approved_entities) = <<>>)
        rejected_reasons ==
            EntityReasons(entities) \o RelationReasons(relations, approved_entities)
        confidence == _calculate_confidence(approved_entities, approved_relations)
        status ==
            IF confidence.num * 100 < confidence_threshold * confidence.den
              THEN "rejected"
              ELSE IF confidence.num * 10 < 8 * confidence.den
                     THEN "needs_review" ELSE "approved"
    IN  {[type |-> "quality_result", task_id |-> m.task_id, status |-> status,
          entities |-> approved_entities, relations |-> approved_relations,
          rejected_reasons |-> rejected_reasons,
          confidence_score |-> confidence]}

\* MergerAgent(threshold=0.8) -> Merger(threshold=threshold), in hundredths
threshold == 80

\* MergerAgent._dict_to_entity
_dict_to_entity(data) ==
    [name |-> Get(data, "name", None), label |-> Get(data, "label", None),
     embedding |-> Get(data, "embedding", <<>>),
     description |-> Get(data, "description", "")]

\* next((e for e in entities if e.name == name), default)
RECURSIVE FirstNamed(_, _, _)
FirstNamed(entities, name, default) ==
    IF entities = <<>> THEN default
    ELSE IF Head(entities).name = name THEN Head(entities)
         ELSE FirstNamed(Tail(entities), name, default)

\* MergerAgent._dict_to_relation: the endpoints are the first entities of the
\* list with the endpoint names, or new entities made of the endpoint dicts
_dict_to_relation(data, entities) ==
    LET start == Get(data, "start_entity", [x |-> 0])
        end == Get(data, "end_entity", [x |-> 0])
    IN  [start_entity |-> FirstNamed(entities, Get(start, "name", None),
                                     _dict_to_entity(start)),
         end_entity |-> FirstNamed(entities, Get(end, "name", None),
                                   _dict_to_entity(end)),
         label |-> Get(data, "label", None), name |-> Get(data, "name", None),
         embedding |-> Get(data, "embedding", <<>>),
         description |-> Get(data, "description", "")]

\* MergerAgent._entity_to_dict, _relation_to_dict
_entity_to_dict(entity) ==
    [name |-> entity.name, label |-> entity.label,
     embedding |-> entity.embedding, description |-> entity.description]

_relation_to_dict(relation) ==
    [start_entity |-> [name |-> relation.start_entity.name,
                       label |-> relation.start_entity.label],
     end_entity |-> [name |-> relation.end_entity.name,
                     label |-> relation.end_entity.label],
     label |-> relation.label, name |-> relation.name,
     embedding |-> relation.embedding, description |-> relation.description]

\* Cosine similarity of two embeddings exceeds t hundredths.  With dot the
\* scalar product and nx, ny the squared norms: dot > 0 and
\* dot^2 / (nx * ny) > (t/100)^2.  An empty or zero embedding is similar to
\* nothing.
RECURSIVE Dot(_, _)
Dot(x, y) ==
    IF x = <<>> \/ y = <<>> THEN 0 ELSE Head(x) * Head(y) + Dot(Tail(x), Tail(y))

Similar(x, y, t) ==
    /\ Dot(x, y) > 0
    /\ Dot(x, y) * Dot(x, y) * 10000 > t * t * Dot(x, x) * Dot(y, y)

\* the entities kept when e is merged into the entities kept so far
Keep(kept, e, t) ==
    IF \E j \in 1..Len(kept) : Similar(kept[j].embedding, e.embedding, t)
      THEN kept ELSE Append(kept, e)

RECURSIVE Dedup(_, _, _)
Dedup(kept, entities, t) ==
    IF entities = <<>> THEN kept
    ELSE Dedup(Keep(kept, Head(entities), t), Tail(entities), t)

\* the kept representative of entity e: the first kept entity similar to it,
\* or e itself
RECURSIVE Representative(_, _, _)
Representative(kept, e, t) ==
    IF kept = <<>> THEN e
    ELSE IF Similar(Head(kept).embedding, e.embedding, t) THEN Head(kept)
         ELSE Representative(Tail(kept), e, t)

\* a merge that also puts the endpoints of every relation among the entities
MergeWithEndpoints(entities1, relations1, entities2, relations2, t) ==
    LET rels == relations1 \o relations2
        ends == [j \in 1..(2 * Len(rels)) |->
                    IF j <= Len(rels) THEN rels[j].start_entity
                    ELSE rels[j - Len(rels)].end_entity]
    IN  [relations |-> rels, entities |-> entities1 \o entities2 \o ends]

\* Merger.merge(entities1, relations1, entities2, relations2) of the DISK
\* library: entities whose embedding is similar to one already kept are
\* duplicates of it; the relations are united, their references to
\* duplicates rewritten to the kept representative.
Merge(entities1, relations1, entities2, relations2, t) ==
    LET kept == Dedup(<<>>, entities1 \o entities2, t)
        rels == relations1 \o relations2
    IN  [relations |->
            [j \in 1..Len(rels) |->
                [rels[j] EXCEPT
                    !.start_entity = Representative(kept, @, t),
                    !.end_entity = Representative(kept, @, t)]],
         entities |-> kept]

_handle_merge(a, m) ==
    LET batch == Get(m.payload, "batch", [x |-> 0])
        existing_kg == Get(m.payload, "existing_kg", [x |-> 0])
        batch_entities_data == Get(batch, "entities", <<>>)
        batch_relations_data == Get(batch, "relations", <<>>)
        existing_entities_data == Get(existing_kg, "entities", <<>>)
        existing_relations_data == Get(existing_kg, "relations", <<>>)
        batch_entities ==
            [j \in 1..Len(batch_entities_data) |->
                _dict_to_entity(batch_entities_data[j])]
        batch_relations ==
            [j \in 1..Len(batch_relations_data) |->
                _dict_to_relation(batch_relations_data[j], batch_entities)]
        existing_entities ==
            [j \in 1..Len(existing_entities_data) |->
                _dict_to_entity(existing_entities_data[j])]
        existing_relations ==
            [j \in 1..Len(existing_relations_data) |->
                _dict_to_relation(existing_relations_data[j], existing_entities)]
        merged == Merge(existing_entities, existing_relations,
                        batch_entities, batch_relations, threshold)
        original_count == Len(existing_entities) + Len(batch_entities)
        merged_count == Len(merged.entities)
    IN  {[type |-> "merge_result", task_id |-> m.task_id,
          merged_entities |->
              [j \in 1..Len(merged.entities) |-> _entity_to_dict(merged.entities[j])],
          merged_relations |->
              [j \in 1..Len(merged.relations) |->
                  _relation_to_dict(merged.relations[j])],
          statistics |->
              [original_count |-> original_count, merged_count |-> merged_count,
               duplicates_found |-> original_count - merged_count]]}

\* The call of _handle_store's try block that raises, if one does.
Faults == {"none", "Neo4jConnector", "create_entities", "create_relations"}

\* The connector _handle_store leaves behind: none was made when the
\* constructor raised; close() is the statement after create_relations and no
\* statement of the except block closes.
connector_after(fault) ==
    CASE fault = "none" -> "closed"
      [] fault = "Neo4jConnector" -> "none"
      [] OTHER -> "open"

\* relations both of whose endpoints name an entity of the list
StoredRelations(graph_data) ==
    LET names == {Get(Get(graph_data, "entities", <<>>)[j], "name", None) :
                     j \in 1..Len(Get(graph_data, "entities", <<>>))}
    IN  SelectSeq(Get(graph_data, "relations", <<>>),
                  LAMBDA r :
                      /\ Get(Get(r, "start_entity", [x |-> 0]), "name", None) \in names
                      /\ Get(Get(r, "end_entity", [x |-> 0]), "name", None) \in names)

_handle_store(a, m, fault) ==
    LET graph_data == Get(m.payload, "graph_data", [x |-> 0])
    IN  IF fault = "none"
          THEN {[type |-> "store_result", task_id |-> m.task_id,
                 status |-> "success",
                 entities_created |-> Len(Get(graph_data, "entities", <<>>)),
                 relations_created |-> Len(StoredRelations(graph_data)),
                 errors |-> <<>>]}
          ELSE {[type |-> "store_result", task_id |-> m.task_id,
                 status |-> "failed", entities_created |-> 0,
                 relations_created |-> 0, errors |-> <<"e">>]}

handler(a, m, fault) ==
    CASE m.type = "ping" -> _handle_ping(a, m)
      [] m.type = "shutdown" -> _handle_shutdown(a, m)
      [] m.type = "distill" -> _handle_distill(a, m)
      [] m.type = "extract" -> _handle_extract_msg(a, m)
      [] m.type = "extract_batch" -> _handle_extract_batch(a, m)
      [] m.type = "quality_check" -> _handle_quality_check(a, m)
      [] m.type = "merge" -> _handle_merge(a, m)
      [] m.type = "store" -> _handle_store(a, m, fault)

\* Handlers out of which an exception can escape: PDFDistiller errors are
\* re-raised by _handle_distill, Merger.merge is called outside any try,
\* _handle_extract awaits the extraction outside any try.
CanRaise(m) ==
    \/ m.type \in {"distill", "merge"}
    \/ m.type = "extract" /\ _handle_extract_msg("", m) = {}

\* ExtractorAgent(max_workers=4): the threads of its ThreadPoolExecutor
max_workers == 4

\* the calls of _extract_sync that handling m submits to the pool
Extractions(m) ==
    CASE m.type = "extract" -> IF "chunk" \in DOMAIN m.payload THEN 1 ELSE 0
      [] m.type = "extract_batch" -> Len(Get(m.payload, "chunks", <<>>))
      [] OTHER -> 0

\* _extract_sync called n more times: "local" is a new threading.local() in
\* every call, so hasattr(local, "extractor") is false whichever worker runs
\* the call, and every call makes an Extractor.
EachCall(created, n) == created + n

\* the pool runs the calls of m
Pool(a, m) ==
    clients' = [clients EXCEPT ![a] = EachCall(@, Extractions(m))]

\* a send that leaves the envelope's task_id at its default
send_without_task_id(a, payload) ==
    [task_id |-> "",
     type |-> Get(payload, "type", ""),
     source |-> agent_id(a),
     payload |-> payload,
     reply_to |-> NoChannel]

\* BaseAgent.send with a dict: the dict becomes the payload of a new envelope
\* whose task_id and type are copied from it.
send(a, payload) ==
    [task_id |-> Get(payload, "task_id", ""),
     type |-> Get(payload, "type", ""),
     source |-> agent_id(a),
     payload |-> payload,
     reply_to |-> NoChannel]

\* What process a puts on the wire for a dict: BaseAgent.send's envelope; the
\* worker that follows the documented message format publishes the dict itself.
Wire(a, payload) == IF a = "distiller_doc" THEN payload ELSE send(a, payload)

\* an error dict that names its own type as original_type
send_error_own_type(m) ==
    [type |-> "error", task_id |-> m.task_id, error |-> "exception",
     original_type |-> "error"]

\* the error dict of BaseAgent.send_error
send_error(m) ==
    [type |-> "error", task_id |-> m.task_id, error |-> "exception",
     original_type |-> m.type]

ReplyMid(a) == [cur[a].mid EXCEPT !.by = a]

\* BaseAgent.start: connect, running = True, then _listen subscribes.
start(a) ==
    /\ a \in deployed
    /\ apc[a] = "new"
    /\ running' = [running EXCEPT ![a] = TRUE]
    /\ apc' = [apc EXCEPT ![a] = "idle"]
    /\ subs' = [subs EXCEPT ![a] = {input_channel(agent_id(a))}]
    /\ UNCHANGED <<static, connector, clients, inbox, snap, got, epoch,
                   cur, sent, failed_once, coordvars, clientvars>>

\* BaseAgent._listen, one iteration of "async for message in pubsub.listen()"
\* up to the point where _process_message awaits the handler.
_listen(a) ==
    /\ apc[a] = "idle"
    /\ inbox[a] # <<>>
    /\ LET e == Head(inbox[a])
       IN  /\ inbox' = [inbox EXCEPT ![a] = Tail(@)]
           /\ got' = got \cup {<<e.mid, a, epoch[a]>>}
           /\ IF ~running[a]
                THEN apc' = [apc EXCEPT ![a] = "exited"] /\ cur' = cur
                ELSE IF AgentMessage(e.env) /\ e.env.type \in _message_handlers(a)
                       THEN apc' = [apc EXCEPT ![a] = "busy"]
                            /\ cur' = [cur EXCEPT ![a] = e]
                       ELSE apc' = apc /\ cur' = cur
    /\ UNCHANGED <<static, connector, clients, running, subs, snap, epoch,
                   sent, failed_once, coordvars, clientvars>>

\* BaseAgent.stop, called by _handle_shutdown before it returns its ack:
\* running = False and redis.close().  stop() does not unsubscribe; whether
\* the subscription of the receive loop survives the close is up to the
\* redis client (it may reconnect and resubscribe).
stop(a) ==
    /\ apc[a] = "busy"
    /\ cur[a].env.type = "shutdown"
    /\ running[a]
    /\ running' = [running EXCEPT ![a] = FALSE]
    /\ \/ UNCHANGED <<subs, inbox>>
       \/ /\ subs' = [subs EXCEPT ![a] = {}]
          /\ inbox' = [inbox EXCEPT ![a] = <<>>]
    /\ UNCHANGED <<static, connector, clients, snap, got, epoch, apc, cur,
                   sent, failed_once, coordvars, clientvars>>

\* BaseAgent._process_message after stop(): self.send on the closed client
\* raises, send_error raises as well, and _listen logs the exception.  (The
\* other outcome, the client reconnecting, is handler_returns.)
send_on_closed(a) ==
    /\ apc[a] = "busy"
    /\ cur[a].env.type = "shutdown"
    /\ ~running[a]
    /\ apc' = [apc EXCEPT ![a] = "idle"]
    /\ cur' = [cur EXCEPT ![a] = NoMsg]
    /\ UNCHANGED <<static, connector, clients, running, busvars, sent,
                   failed_once, coordvars, clientvars>>

\* BaseAgent._process_message, handler returned: "if response and
\* msg.reply_to: await self.send(response, channel=msg.reply_to)".  The
\* shutdown handler has called stop() by then: running is False.
handler_returns(a) ==
    /\ apc[a] = "busy"
    /\ cur[a].env.type = "shutdown" => ~running[a]
    /\ \E fault \in Faults : \E response \in handler(a, cur[a].env, fault) :
          LET m == cur[a].env
              e == [mid |-> ReplyMid(a), env |-> Wire(a, response)]
          IN  /\ IF m.reply_to # NoChannel
                   THEN /\ inbox' = Deliver(inbox, m.reply_to, e)
                        /\ snap' = Snapshot(m.reply_to, e)
                        /\ sent' = sent \cup {<<e.mid, m.reply_to, response.type,
                                                e.env, m, running[a]>>}
                   ELSE UNCHANGED <<inbox, snap, sent>>
              /\ connector' = IF m.type = "store"
                                THEN [connector EXCEPT ![a] = connector_after(fault)]
                                ELSE connector
              /\ Pool(a, m)
    /\ apc' = [apc EXCEPT ![a] = "idle"]
    /\ cur' = [cur EXCEPT ![a] = NoMsg]
    /\ UNCHANGED <<static, running, subs, got, epoch, failed_once, coordvars,
                   clientvars>>

\* a receive loop whose "except" is missing: the exception of a handler ends
\* the loop and the process.
handler_raises_and_exits(a) ==
    /\ apc[a] = "busy"
    /\ CanRaise(cur[a].env)
    /\ apc' = [apc EXCEPT ![a] = "exited"]
    /\ running' = [running EXCEPT ![a] = FALSE]
    /\ subs' = [subs EXCEPT ![a] = {}]
    /\ inbox' = [inbox EXCEPT ![a] = <<>>]
    /\ cur' = [cur EXCEPT ![a] = NoMsg]
    /\ failed_once' = failed_once \cup {a}
    /\ UNCHANGED <<static, connector, clients, snap, got, epoch, sent,
                   coordvars, clientvars>>

\* BaseAgent._process_message, handler raised: send_error publishes the error
\* dict on "original_msg.reply_to or self.output_channel".
handler_raises(a) ==
    /\ apc[a] = "busy"
    /\ CanRaise(cur[a].env)
    /\ LET m == cur[a].env
           ch == IF m.reply_to # NoChannel THEN m.reply_to
                 ELSE output_channel(agent_id(a))
           e == [mid |-> ReplyMid(a), env |-> Wire(a, send_error(m))]
       IN  /\ inbox' = Deliver(inbox, ch, e)
           /\ snap' = Snapshot(ch, e)
           /\ sent' = sent \cup {<<e.mid, ch, "error", e.env, m, running[a]>>}
    /\ apc' = [apc EXCEPT ![a] = "idle"]
    /\ cur' = [cur EXCEPT ![a] = NoMsg]
    /\ failed_once' = failed_once \cup {a}
    /\ Pool(a, cur[a].env)
    /\ UNCHANGED <<static, connector, running, subs, got, epoch, coordvars,
                   clientvars>>

\* ------------------------------------------------------- TaskCoordinator

\* TaskCoordinator(merge_threshold=0.8), in hundredths
merge_threshold == 80

\* reply channels named after the stage alone
response_queue_of_stage(t, c) == <<"coordinator", c>>

\* response_queue of the five request/reply helpers
response_queue(t, c) ==
    IF c = "distill" THEN <<"coordinator", t>> ELSE <<"coordinator", t, c>>

\* the channel each helper publishes its request to
request_channel(c) ==
    CASE c = "distill" -> input_channel("distiller")
      [] c = "extract" -> input_channel("extractor")
      [] c = "quality" -> input_channel("quality")
      [] c = "merge" -> input_channel("merger")
      [] c = "store" -> input_channel("storage")

\* the message type each helper sends, and the one it waits for
request_type(c) ==
    CASE c = "distill" -> "distill"
      [] c = "extract" -> "extract_batch"
      [] c = "quality" -> "quality_check"
      [] c = "merge" -> "merge"
      [] c = "store" -> "store"

response_type(c) ==
    CASE c = "distill" -> "text_chunks"
      [] c = "extract" -> "batch_extraction_result"
      [] c = "quality" -> "quality_result"
      [] c = "merge" -> "merge_result"
      [] c = "store" -> "store_result"

\* batch = chunks[i : i + self.batch_size]
batch(t) ==
    SubSeq(loc[t].chunks, loc[t].i + 1,
           Min(loc[t].i + batch_size, Len(loc[t].chunks)))

\* the payload of each helper's request
request_payload(t, c) ==
    CASE c = "distill" -> [pdf_path |-> "pdf"]
      [] c = "extract" -> [chunks |-> batch(t), pdf_path |-> "pdf"]
      [] c = "quality" ->
            [entities |-> loc[t].entities, relations |-> loc[t].relations]
      [] c = "merge" ->
            [existing_kg |-> [entities |-> loc[t].all_entities,
                              relations |-> loc[t].all_relations],
             batch |-> [entities |-> loc[t].approved_entities,
                        relations |-> loc[t].approved_relations],
             threshold |-> merge_threshold]
      [] c = "store" ->
            [graph_data |-> [entities |-> loc[t].all_entities,
                             relations |-> loc[t].all_relations]]

\* history: number of the batch a request belongs to (0: distill, store)
BatchNo(t, c) ==
    IF c \in {"distill", "store"} THEN 0 ELSE (loc[t].i \div batch_size) + 1

RequestMid(t) ==
    [by |-> "coordinator", task |-> t, stage |-> call[t], k |-> BatchNo(t, call[t])]

NoStatus == [stage |-> "none"]
NoReturn == [status |-> "none"]

InitLoc ==
    [chunks |-> <<>>, i |-> 0, entities |-> <<>>, relations |-> <<>>,
     approved_entities |-> <<>>, approved_relations |-> <<>>,
     all_entities |-> <<>>, all_relations |-> <<>>]

\* process_pdf up to its first await: task id, task_status[task_id]
process_pdf(t) ==
    /\ pc[t] = "idle"
    /\ task_status' = [task_status EXCEPT ![t] =
                          [stage |-> "distill", progress |-> 0, errors |-> <<>>]]
    /\ pc' = [pc EXCEPT ![t] = "subscribe"]
    /\ call' = [call EXCEPT ![t] = "distill"]
    /\ UNCHANGED <<static, busvars, agentvars, loc, ret, reqlog, consumed,
                   clientvars>>
    /\ progress_log' = [progress_log EXCEPT ![t] =
                          Append(@, [stage |-> "distill", num |-> 0, den |-> 1])]

\* pubsub = self.redis.pubsub(); await pubsub.subscribe(response_queue)
subscribe(t) ==
    /\ pc[t] = "subscribe"
    /\ subs' = [subs EXCEPT ![t] = {response_queue(t, call[t])}]
    /\ inbox' = [inbox EXCEPT ![t] = <<>>]
    /\ epoch' = [epoch EXCEPT ![t] = @ + 1]
    /\ pc' = [pc EXCEPT ![t] = "publish"]
    /\ UNCHANGED <<static, snap, got, agentvars, call, task_status, loc, ret,
                   reqlog, consumed, clientvars>>
    /\ UNCHANGED progress_log

\* await self.redis.publish("agent:<id>:input", AgentMessage(...))
publish(t) ==
    /\ pc[t] = "publish"
    /\ LET e == [mid |-> RequestMid(t),
                 env |-> [task_id |-> t,
                          type |-> request_type(call[t]),
                          source |-> "coordinator",
                          payload |-> request_payload(t, call[t]),
                          reply_to |-> response_queue(t, call[t])]]
       IN  /\ inbox' = Deliver(inbox, request_channel(call[t]), e)
           /\ snap' = Snapshot(request_channel(call[t]), e)
           /\ reqlog' = [reqlog EXCEPT ![t] = Append(@, <<call[t], e.mid.k>>)]
    /\ pc' = [pc EXCEPT ![t] = "listen"]
    /\ UNCHANGED <<static, subs, got, epoch, agentvars, call, task_status,
                   loc, ret, consumed, clientvars>>
    /\ UNCHANGED progress_log

\* "except Exception as e" of process_pdf, reached here by a redis call that
\* raises (the server is unreachable when the helper subscribes).
connection_error(t) ==
    /\ pc[t] = "subscribe"
    /\ task_status' = [task_status EXCEPT
                          ![t].stage = "failed",
                          ![t].errors = Append(@, "ConnectionError")]
    /\ pc' = [pc EXCEPT ![t] = "raised"]
    /\ ret' = [ret EXCEPT ![t] = [status |-> "exception"]]
    /\ UNCHANGED <<static, busvars, agentvars, call, loc, reqlog, consumed,
                   clientvars>>
    /\ UNCHANGED progress_log

\* one iteration of a helper's "async for message in pubsub.listen()" whose
\* message has another type than the awaited one: nothing happens.
listen_other(t) ==
    /\ pc[t] = "listen"
    /\ inbox[t] # <<>>
    /\ Get(Head(inbox[t]).env, "type", "") # response_type(call[t])
    /\ inbox' = [inbox EXCEPT ![t] = Tail(@)]
    /\ got' = got \cup {<<Head(inbox[t]).mid, t, epoch[t]>>}
    /\ UNCHANGED <<static, subs, snap, epoch, agentvars, coordvars, clientvars>>

\* the awaited message arrives: await pubsub.unsubscribe(response_queue); return
Awaited(t, c) ==
    /\ pc[t] = "listen"
    /\ call[t] = c
    /\ inbox[t] # <<>>
    /\ Get(Head(inbox[t]).env, "type", "") = response_type(c)

\* a return that leaves the subscription to the reply channel in place
ReturnSubscribed(t) ==
    /\ subs' = subs
    /\ inbox' = [inbox EXCEPT ![t] = Tail(@)]
    /\ got' = got \cup {<<Head(inbox[t]).mid, t, epoch[t]>>}
    /\ consumed' = [consumed EXCEPT ![t] = @ \cup {<<RequestMid(t), Head(inbox[t]).mid>>}]

Unsubscribe(t) ==
    /\ subs' = [subs EXCEPT ![t] = {}]
    /\ inbox' = [inbox EXCEPT ![t] = <<>>]
    /\ got' = got \cup {<<Head(inbox[t]).mid, t, epoch[t]>>}
    /\ consumed' = [consumed EXCEPT ![t] = @ \cup {<<RequestMid(t), Head(inbox[t]).mid>>}]

\* What process_pdf passes to progress_callback when the loop is at index i:
\* "progress = (i + len(batch)) / len(chunks)" with stage extract, as the
\* fraction num/den, and ("store", 1.0) once the loop is over.
progress_callback(chunks, i) ==
    IF i < Len(chunks)
      THEN [stage |-> "extract",
            num |-> i + Min(batch_size, Len(chunks) - i),
            den |-> Len(chunks)]
      ELSE [stage |-> "store", num |-> 1, den |-> 1]

\* a loop that extracts one batch more than the document has
NextCallOneMore(chunks, i) == IF i <= Len(chunks) THEN "extract" ELSE "store"

\* "for i in range(0, len(chunks), self.batch_size)": next helper to call
NextCall(chunks, i) == IF i < Len(chunks) THEN "extract" ELSE "store"

\* _distill_pdf returns data.get("chunks", []); process_pdf goes on to the loop
_distill_pdf(t) ==
    /\ Awaited(t, "distill")
    /\ Unsubscribe(t)
    /\ LET chunks == Get(Head(inbox[t]).env, "chunks", <<>>)
       IN  /\ loc' = [loc EXCEPT ![t].chunks = chunks, ![t].i = 0,
                                 ![t].all_entities = <<>>,
                                 ![t].all_relations = <<>>]
           /\ task_status' = [task_status EXCEPT ![t] =
                 [stage |-> "extract", progress |-> 0, errors |-> @.errors,
                  total_chunks |-> Len(chunks)]]
           /\ call' = [call EXCEPT ![t] = NextCall(chunks, 0)]
           /\ progress_log' = [progress_log EXCEPT ![t] =
                                 Append(@, progress_callback(chunks, 0))]
    /\ pc' = [pc EXCEPT ![t] = "subscribe"]
    /\ UNCHANGED <<static, snap, epoch, agentvars, ret, reqlog, clientvars>>

\* _extract_batch returns data.get("entities", []), data.get("relations", [])
_extract_batch(t) ==
    /\ Awaited(t, "extract")
    /\ Unsubscribe(t)
    /\ loc' = [loc EXCEPT
                 ![t].entities = Get(Head(inbox[t]).env, "entities", <<>>),
                 ![t].relations = Get(Head(inbox[t]).env, "relations", <<>>)]
    /\ call' = [call EXCEPT ![t] = "quality"]
    /\ pc' = [pc EXCEPT ![t] = "subscribe"]
    /\ UNCHANGED <<static, snap, epoch, agentvars, task_status, ret, reqlog,
                   clientvars>>
    /\ UNCHANGED progress_log

\* _quality_check returns data.get("entities", []), data.get("relations", [])
_quality_check(t) ==
    /\ Awaited(t, "quality")
    /\ Unsubscribe(t)
    /\ loc' = [loc EXCEPT
                 ![t].approved_entities = Get(Head(inbox[t]).env, "entities", <<>>),
                 ![t].approved_relations = Get(Head(inbox[t]).env, "relations", <<>>)]
    /\ call' = [call EXCEPT ![t] = "merge"]
    /\ pc' = [pc EXCEPT ![t] = "subscribe"]
    /\ UNCHANGED <<static, snap, epoch, agentvars, task_status, ret, reqlog,
                   clientvars>>
    /\ UNCHANGED progress_log

\* _merge returns (merged_relations, merged_entities); the loop moves on
_merge(t) ==
    /\ Awaited(t, "merge")
    /\ Unsubscribe(t)
    /\ loc' = [loc EXCEPT
                 ![t].all_relations = Get(Head(inbox[t]).env, "merged_relations", <<>>),
                 ![t].all_entities = Get(Head(inbox[t]).env, "merged_entities", <<>>),
                 ![t].i = @ + batch_size]
    /\ call' = [call EXCEPT ![t] = NextCall(loc[t].chunks, loc[t].i + batch_size)]
    /\ pc' = [pc EXCEPT ![t] = "subscribe"]
    /\ UNCHANGED <<static, snap, epoch, agentvars, task_status, ret, reqlog,
                   clientvars>>
    /\ progress_log' = [progress_log EXCEPT ![t] =
          Append(@, progress_callback(loc[t].chunks, loc[t].i + batch_size))]

\* _store returns data; process_pdf marks the task completed and returns
_store(t) ==
    /\ Awaited(t, "store")
    /\ Unsubscribe(t)
    /\ task_status' = [task_status EXCEPT ![t].stage = "completed",
                                          ![t].progress = 1]
    /\ ret' = [ret EXCEPT ![t] =
                 [task_id |-> t, status |-> "completed",
                  statistics |->
                    [total_chunks |-> Len(loc[t].chunks),
                     total_entities |-> Len(loc[t].all_entities),
                     total_relations |-> Len(loc[t].all_relations),
                     entities_created |->
                         Get(Head(inbox[t]).env, "entities_created", 0)]]]
    /\ pc' = [pc EXCEPT ![t] = "returned"]
    /\ UNCHANGED <<static, snap, epoch, agentvars, call, loc, reqlog, clientvars>>
    /\ UNCHANGED progress_log

\* ------------------------------------------------------- external sender

ClientReply == <<"client", "reply">>

ClientTypes == {"ping", "status"}

ClientMid(ty, k) == [by |-> "client", task |-> "", stage |-> ty, k |-> k]

\* Another bus client uses the request/reply pattern of the coordinator's
\* helpers towards one agent: subscribe to a reply channel, publish an
\* envelope with reply_to set (a ping, or "status", a type no agent has a
\* handler for), then listen.  It sends no shutdown.
client_send(id, ty) ==
    /\ cpc = "idle"
    /\ nclient < MaxClient
    /\ nclient' = nclient + 1
    /\ cpc' = "listen"
    /\ subs' = [subs EXCEPT !["client"] = {ClientReply}]
    /\ epoch' = [epoch EXCEPT !["client"] = @ + 1]
    /\ LET e == [mid |-> ClientMid(ty, nclient + 1),
                 env |-> [task_id |-> "", type |-> ty, source |-> "client",
                          payload |-> [note |-> "probe"],
                          reply_to |-> ClientReply]]
       IN  /\ inbox' = Deliver([inbox EXCEPT !["client"] = <<>>],
                               input_channel(id), e)
           /\ snap' = Snapshot(input_channel(id), e)
    /\ UNCHANGED <<static, got, agentvars, coordvars, health>>

\* the sender's "async for message in pubsub.listen()": the first message on
\* the reply channel ends the wait.
client_listen ==
    /\ cpc = "listen"
    /\ inbox["client"] # <<>>
    /\ got' = got \cup {<<Head(inbox["client"]).mid, "client", epoch["client"]>>}
    /\ subs' = [subs EXCEPT !["client"] = {}]
    /\ inbox' = [inbox EXCEPT !["client"] = <<>>]
    /\ cpc' = "idle"
    /\ UNCHANGED <<static, snap, epoch, agentvars, coordvars, nclient,
                   health>>

PostTypes == {"distill", "ping"}

PostMid(ty, k) == [by |-> "producer", task |-> "job", stage |-> ty, k |-> k]

\* A bus client that publishes an envelope on an agent's input channel and
\* names no reply_to channel (as the health probe does with its ping).
post(id, ty) ==
    /\ cpc = "idle"
    /\ nclient < MaxClient
    /\ nclient' = nclient + 1
    /\ LET e == [mid |-> PostMid(ty, nclient + 1),
                 env |-> [task_id |-> "job", type |-> ty, source |-> "producer",
                          payload |-> [pdf_path |-> "pdf"],
                          reply_to |-> NoChannel]]
       IN  /\ inbox' = Deliver(inbox, input_channel(id), e)
           /\ snap' = Snapshot(input_channel(id), e)
    /\ UNCHANGED <<static, subs, got, epoch, agentvars, coordvars, cpc,
                   health>>

CallMid(ty) == [by |-> "caller", task |-> "job", stage |-> ty, k |-> 1]

\* One request with the given payload to one agent, by a bus client that
\* uses the request/reply pattern of the coordinator's helpers.
call_agent(id, ty, payload) ==
    /\ cpc = "idle"
    /\ nclient = 0
    /\ nclient' = 1
    /\ cpc' = "listen"
    /\ subs' = [subs EXCEPT !["client"] = {ClientReply}]
    /\ epoch' = [epoch EXCEPT !["client"] = @ + 1]
    /\ LET e == [mid |-> CallMid(ty),
                 env |-> [task_id |-> "job", type |-> ty, source |-> "caller",
                          payload |-> payload, reply_to |-> ClientReply]]
       IN  /\ inbox' = Deliver([inbox EXCEPT !["client"] = <<>>],
                               input_channel(id), e)
           /\ snap' = Snapshot(input_channel(id), e)
    /\ UNCHANGED <<static, got, agentvars, coordvars, health>>

\* sequences of length 0..n over the set S
SeqsUpTo(S, n) == UNION {[1..l -> S] : l \in 0..n}

\* the payloads of the work a producer posts to the Extractor: one chunk for
\* "extract", a chunk list for "extract_batch"
PoolContents == {"alpha", "garbled"}

PoolWork ==
    {<<"extract", [chunk |-> [index |-> 0, content |-> c], pdf_path |-> "pdf"]>> :
        c \in PoolContents}
    \cup {<<"extract", [pdf_path |-> "pdf"]>>}
    \cup {<<"extract_batch",
            [chunks |-> [j \in 1..Len(c) |-> [index |-> j - 1, content |-> c[j]]],
             pdf_path |-> "pdf"]>> : c \in SeqsUpTo(PoolContents, MaxChunks)}

\* A producer publishes an "extract" or "extract_batch" envelope on the
\* Extractor's input channel and names no reply_to channel.
post_extract(work) ==
    /\ cpc = "idle"
    /\ nclient < MaxClient
    /\ nclient' = nclient + 1
    /\ LET e == [mid |-> PostMid(work[1], nclient + 1),
                 env |-> [task_id |-> "job", type |-> work[1],
                          source |-> "producer", payload |-> work[2],
                          reply_to |-> NoChannel]]
       IN  /\ inbox' = Deliver(inbox, input_channel("extractor"), e)
           /\ snap' = Snapshot(input_channel("extractor"), e)
    /\ UNCHANGED <<static, subs, got, epoch, agentvars, coordvars, cpc,
                   health>>

\* the texts a chunk can hold, by what the extraction library does with them
Contents == {"alpha", "beta", "blank", "garbled"}

\* chunk lists of up to MaxChunks chunks, indexed as the Distiller does
ChunkLists ==
    {[j \in 1..Len(c) |-> [index |-> j - 1, content |-> c[j]]] :
        c \in SeqsUpTo(Contents, MaxChunks)}

\* largest number of entities, and of relations, in a quality_check request
MaxItems == 2

\* entity dicts a quality_check can be given: well formed with and without a
\* description, a one-letter name, a blank label, a tab in the name
Ex == [name |-> <<"X">>, label |-> <<"P">>, description |-> "d"]
Cy == [name |-> <<"C", "y">>, label |-> <<" ">>, description |-> "d"]
Tab == [name |-> <<"T", "\t">>, label |-> <<"P">>, description |-> ""]

EntityDicts == {Ann, Bob, Ex, Cy, Tab}

Relation(s, e, d) ==
    [start_entity |-> EndPoint(s), end_entity |-> EndPoint(e),
     label |-> <<"R">>, name |-> <<"k", "n", "o", "w", "s">>, description |-> d]

\* relation dicts: between well-formed entities with and without a
\* description, self-referential, and with a one-letter endpoint
RelationDicts ==
    {AnnBob, Relation(Bob, Ann, ""), Relation(Ann, Ann, "d"), Relation(Ann, Ex, "")}

\* entity dicts with embeddings: Anna and Anne are similar beyond the
\* threshold (cosine 0.95), Bert is similar to neither
Anna == [name |-> <<"A", "n", "n", "a">>, label |-> <<"P">>,
         embedding |-> <<10, 0>>, description |-> "d"]
Anne == [name |-> <<"A", "n", "n", "e">>, label |-> <<"P">>,
         embedding |-> <<9, 3>>, description |-> ""]
Bert == [name |-> <<"B", "e", "r", "t">>, label |-> <<"P">>,
         embedding |-> <<0, 10>>, description |-> "d"]
Zed == [name |-> <<"Z", "e", "d">>, label |-> <<"P">>,
        embedding |-> <<3, 3>>, description |-> ""]

MergeEntityDicts == {Anna, Anne, Bert}

\* relation dicts: one between entities of MergeEntityDicts, one whose end
\* is an entity that no list holds
MergeRelationDicts == {Relation(Anne, Bert, "d"), Relation(Bert, Zed, "")}

\* ---------------------------------------------------- check_agents_health

\* agents = ["distiller", "extractor", "quality", "merger", "storage"]
agents == <<"distiller", "extractor", "quality", "merger", "storage">>

\* position "publish" of the first agent, health_status = {};  alive is
\* history: the agents that had a running receive loop when their ping was
\* published
InitHealth ==
    [pc |-> "publish", i |-> 1, alive |-> {},
     health_status |-> [id \in {agents[j] : j \in 1..Len(agents)} |-> "none"]]

\* some process of agent id is in its receive loop
Running(id) ==
    \E a \in deployed :
        agent_id(a) = id /\ running[a] /\ apc[a] \in {"idle", "busy"}

\* no process of agent id has anything left to work on
Quiescent(id) ==
    \A a \in deployed : agent_id(a) = id => apc[a] # "busy" /\ inbox[a] = <<>>

HealthMid(i) == [by |-> "health_check", task |-> "", stage |-> "ping", k |-> i]

\* r.publish(f"agent:{agent_id}:input", '{"type":"ping","source":"health_check"}')
health_publish ==
    /\ health.pc = "publish"
    /\ LET id == agents[health.i]
           e == [mid |-> HealthMid(health.i),
                 env |-> [type |-> "ping", source |-> "health_check"]]
       IN  /\ inbox' = Deliver(inbox, input_channel(id), e)
           /\ snap' = Snapshot(input_channel(id), e)
           /\ health' = [health EXCEPT
                           !.pc = "subscribe",
                           !.alive = IF Running(id) THEN @ \cup {id} ELSE @]
    /\ UNCHANGED <<static, subs, got, epoch, agentvars, coordvars, nclient,
                   cpc>>

\* pubsub = r.pubsub(); pubsub.subscribe(f"agent:{agent_id}:output")
health_subscribe ==
    /\ health.pc = "subscribe"
    /\ subs' = [subs EXCEPT !["health"] = {output_channel(agents[health.i])}]
    /\ inbox' = [inbox EXCEPT !["health"] = <<>>]
    /\ epoch' = [epoch EXCEPT !["health"] = @ + 1]
    /\ health' = [health EXCEPT !.pc = "poll"]
    /\ UNCHANGED <<static, snap, got, agentvars, coordvars, nclient, cpc>>

\* pubsub.unsubscribe(...); health_status[agent_id] = {"status": ...}; the
\* loop goes on to the next agent
Report(status) ==
    /\ subs' = [subs EXCEPT !["health"] = {}]
    /\ health' = [health EXCEPT
                    !.health_status[agents[health.i]] = status,
                    !.i = @ + 1,
                    !.pc = IF health.i = Len(agents) THEN "done" ELSE "publish"]

\* one pubsub.get_message(timeout=0.1) that yields a message: a pong ends the
\* wait with a response, anything else is passed over
health_message ==
    /\ health.pc = "poll"
    /\ inbox["health"] # <<>>
    /\ got' = got \cup {<<Head(inbox["health"]).mid, "health", epoch["health"]>>}
    /\ IF Get(Head(inbox["health"]).env, "type", "") = "pong"
         THEN Report("healthy") /\ inbox' = [inbox EXCEPT !["health"] = <<>>]
         ELSE /\ inbox' = [inbox EXCEPT !["health"] = Tail(@)]
              /\ UNCHANGED <<subs, health>>
    /\ UNCHANGED <<static, snap, epoch, agentvars, coordvars, nclient, cpc>>

\* the fifty polls are over without a pong (here: not before the agent's
\* processes have worked off what was on their input channel)
health_timeout ==
    /\ health.pc = "poll"
    /\ inbox["health"] = <<>>
    /\ Quiescent(agents[health.i])
    /\ Report("unhealthy")
    /\ UNCHANGED <<static, inbox, snap, got, epoch, agentvars, coordvars,
                   nclient, cpc>>

HealthStep ==
    \/ health_publish
    \/ health_subscribe
    \/ health_message
    \/ health_timeout

\* ----------------------------------------------- PipelineView (frontend)

\* the documents of the list
Docs == {"A", "B"}

\* largest number of asynchronous calls (fetchProcessingDocuments,
\* selectDocument) the page makes
MaxCalls == 3

null == "null"

\* The page once mounted: the refs are null, no EventSource is open and no
\* interval runs, and the effect's fetchProcessingDocuments() awaits
\* documentsApi.list.  A call is [doc, pc]: a running async function and the
\* await it is suspended at.  The EventSource and the interval that call
\* number c creates are named c.
PipelineView ==
    [selectedDocIdRef |-> null, unsubscribeRef |-> null, timerRef |-> null,
     streams |-> {}, timers |-> {},
     calls |-> <<[doc |-> null, pc |-> "list"]>>]

\* fetchProcessingDocuments after "await documentsApi.list": the first
\* processing document, if any, is selected when none is, and
\* subscribeToTask is called when it has a task_id
fetchProcessingDocuments(c, first, task_id) ==
    /\ c <= Len(page.calls)
    /\ page.calls[c].pc = "list"
    /\ IF first # null /\ page.selectedDocIdRef = null
         THEN page' = [page EXCEPT
                 !.selectedDocIdRef = first,
                 !.calls[c] = [doc |-> first,
                               pc |-> IF task_id THEN "get_task" ELSE "done"]]
         ELSE page' = [page EXCEPT !.calls[c].pc = "done"]
    /\ UNCHANGED backend

\* selectDocument(docId) up to "await documentsApi.get(docId)"
selectDocument(docId) ==
    /\ Len(page.calls) < MaxCalls
    /\ page.selectedDocIdRef # docId
    /\ page' = [page EXCEPT
                  !.streams = @ \ {page.unsubscribeRef},
                  !.unsubscribeRef = null,
                  !.timers = @ \ {page.timerRef},
                  !.timerRef = null,
                  !.selectedDocIdRef = docId,
                  !.calls = Append(@, [doc |-> docId, pc |-> "get_doc"])]
    /\ UNCHANGED backend

\* selectDocument after "await documentsApi.get(docId)": subscribeToTask is
\* called when the document has a task_id; a rejection is logged
documentsApi_get(c, outcome) ==
    /\ c <= Len(page.calls)
    /\ page.calls[c].pc = "get_doc"
    /\ page' = [page EXCEPT
                  !.calls[c].pc = IF outcome = "task_id" THEN "get_task" ELSE "done"]
    /\ UNCHANGED backend

\* subscribeToTask after "await tasksApi.get(taskId)": an interval is set for
\* a processing or pending task, then tasksApi.subscribeProgress opens an
\* EventSource; both refs are overwritten.  A rejection is logged.
subscribeToTask(c, status) ==
    /\ c <= Len(page.calls)
    /\ page.calls[c].pc = "get_task"
    /\ IF status = "rejected"
         THEN page' = [page EXCEPT !.calls[c].pc = "done"]
         ELSE page' = [page EXCEPT
                 !.timers = IF status = "processing" THEN @ \cup {c} ELSE @,
                 !.timerRef = IF status = "processing" THEN c ELSE @,
                 !.streams = @ \cup {c},
                 !.unsubscribeRef = c,
                 !.calls[c].pc = "done"]
    /\ UNCHANGED backend

\* the 'complete' event of EventSource s: onComplete clears the interval of
\* timerRef and calls fetchProcessingDocuments(), then the source is closed
onComplete(s) ==
    /\ s \in page.streams
    /\ Len(page.calls) < MaxCalls
    /\ page' = [page EXCEPT
                  !.timers = @ \ {page.timerRef},
                  !.streams = @ \ {s},
                  !.calls = Append(@, [doc |-> null, pc |-> "list"])]
    /\ UNCHANGED backend

\* the 'error' event of EventSource s: the source is closed
onError(s) ==
    /\ s \in page.streams
    /\ page' = [page EXCEPT !.streams = @ \ {s}]
    /\ UNCHANGED backend

\* ------------------------------------------------------------------ system

InitWith(d) ==
    /\ deployed = d
    /\ running = [a \in AllInstances |-> FALSE]
    /\ apc = [a \in AllInstances |-> "new"]
    /\ cur = [a \in AllInstances |-> NoMsg]
    /\ subs = [s \in Subscribers |-> {}]
    /\ inbox = [s \in Subscribers |-> <<>>]
    /\ pc = [t \in Tasks |-> "idle"]
    /\ call = [t \in Tasks |-> "distill"]
    /\ task_status = [t \in Tasks |-> NoStatus]
    /\ loc = [t \in Tasks |-> InitLoc]
    /\ ret = [t \in Tasks |-> NoReturn]
    /\ nclient = 0
    /\ cpc = "idle"
    /\ health = InitHealth
    /\ sent = {}
    /\ reqlog = [t \in Tasks |-> <<>>]
    /\ progress_log = [t \in Tasks |-> <<>>]
    /\ consumed = [t \in Tasks |-> {}]
    /\ snap = {}
    /\ got = {}
    /\ epoch = [s \in Subscribers |-> 0]
    /\ failed_once = {}
    /\ connector = [a \in AllInstances |-> "none"]
    /\ clients = [a \in AllInstances |-> 0]
    /\ page = PipelineView

\* one step of agent process a
AgentStep(a) ==
    \/ start(a)
    \/ _listen(a)
    \/ handler_returns(a)
    \/ handler_raises(a)

\* one step of an agent process none of whose handlers raises
WorkStep(a) ==
    \/ start(a)
    \/ _listen(a)
    \/ handler_returns(a)

\* one step of run t outside the batch loop
RunStep(t) ==
    \/ process_pdf(t)
    \/ subscribe(t)
    \/ publish(t)
    \/ listen_other(t)
    \/ _distill_pdf(t)
    \/ _store(t)

\* one step of run t that ends a helper called from the batch loop
BatchStep(t) ==
    \/ _extract_batch(t)
    \/ _quality_check(t)
    \/ _merge(t)

ClientStep ==
    \/ \E id \in {agent_id(a) : a \in deployed}, ty \in ClientTypes :
          client_send(id, ty)
    \/ client_listen

\* One run against the supervisor deployment: every agent, two extractor
\* processes, both Distiller workers; redis may fail under the coordinator.
Init == InitWith(AllInstances)

Next ==
    \/ \E a \in AllInstances : AgentStep(a)
    \/ RunStep("t1")
    \/ BatchStep("t1")
    \/ connection_error("t1")

Spec == Init /\ [][Next]_vars

\* Two concurrent runs against one process per agent.
InitRuns ==
    InitWith({"distiller_doc", "extractor_00", "quality", "merger", "storage"})

NextRuns ==
    \/ \E a \in AllInstances : AgentStep(a)
    \/ \E t \in Tasks : RunStep(t)
    \/ \E t \in Tasks : BatchStep(t)

SpecRuns == InitRuns /\ [][NextRuns]_vars

\* One run and an external sender against DistillerAgent and StorageAgent.
\* DistillerAgent's reply never yields a chunk to the coordinator (its chunk
\* list is nested in the envelope's payload), so no BatchStep is ever enabled.
InitProbe == InitWith({"distiller", "storage"})

NextProbe ==
    \/ \E a \in AllInstances : AgentStep(a)
    \/ RunStep("t1")
    \/ connection_error("t1")
    \/ ClientStep

SpecProbe == InitProbe /\ [][NextProbe]_vars

\* One run and a producer that names no reply_to, against DistillerAgent
\* and StorageAgent.
NextPost ==
    \/ \E a \in AllInstances : AgentStep(a)
    \/ RunStep("t1")
    \/ \E id \in {"distiller", "storage"}, ty \in PostTypes : post(id, ty)

SpecPost == InitProbe /\ [][NextPost]_vars

\* An external sender that pings and shuts down DistillerAgent and
\* StorageAgent, while a producer posts work to them.
StopTypes == {"ping", "shutdown"}

StopStep(a) ==
    \/ stop(a)
    \/ send_on_closed(a)

NextStop ==
    \/ \E a \in AllInstances : AgentStep(a)
    \/ \E a \in AllInstances : StopStep(a)
    \/ \E id \in {"distiller", "storage"}, ty \in StopTypes : client_send(id, ty)
    \/ client_listen
    \/ \E id \in {"distiller", "storage"}, ty \in PostTypes : post(id, ty)

SpecStop == InitProbe /\ [][NextStop]_vars

\* One extract_batch request, over any chunk list, to one ExtractorAgent.
InitExtract == InitWith({"extractor_00"})

NextExtract ==
    \/ \E a \in AllInstances : WorkStep(a)
    \/ \E chunks \in ChunkLists :
          call_agent("extractor", "extract_batch",
                     [chunks |-> chunks, pdf_path |-> "pdf"])
    \/ client_listen

SpecExtract == InitExtract /\ [][NextExtract]_vars

\* One quality_check request, over any lists of entities and relations, to
\* QualityAgent.
InitQuality == InitWith({"quality"})

NextQuality ==
    \/ \E a \in AllInstances : WorkStep(a)
    \/ \E entities \in SeqsUpTo(EntityDicts, MaxItems),
          relations \in SeqsUpTo(RelationDicts, MaxItems) :
          call_agent("quality", "quality_check",
                     [entities |-> entities, relations |-> relations])
    \/ client_listen

SpecQuality == InitQuality /\ [][NextQuality]_vars

\* the thresholds a merge request can carry, in hundredths: the
\* coordinator's, and one above the similarity of Anna and Anne
Thresholds == {merge_threshold, 99}

\* One merge request, over any existing graph and batch, to MergerAgent.
InitMerge == InitWith({"merger"})

NextMerge ==
    \/ \E a \in AllInstances : AgentStep(a)
    \/ \E e1 \in SeqsUpTo(MergeEntityDicts, MaxItems - 1),
          r1 \in SeqsUpTo(MergeRelationDicts, MaxItems - 1),
          e2 \in SeqsUpTo(MergeEntityDicts, MaxItems),
          r2 \in SeqsUpTo(MergeRelationDicts, MaxItems - 1),
          th \in Thresholds :
          call_agent("merger", "merge",
                     [existing_kg |-> [entities |-> e1, relations |-> r1],
                      batch |-> [entities |-> e2, relations |-> r2],
                      threshold |-> th])
    \/ client_listen

SpecMerge == InitMerge /\ [][NextMerge]_vars

\* One store request, over any graph, to StorageAgent.
InitStore == InitWith({"storage"})

NextStore ==
    \/ \E a \in AllInstances : WorkStep(a)
    \/ \E es \in SeqsUpTo(MergeEntityDicts, MaxItems),
          rs \in SeqsUpTo(MergeRelationDicts, MaxItems - 1) :
          call_agent("storage", "store",
                     [graph_data |-> [entities |-> es, relations |-> rs]])
    \/ client_listen

SpecStore == InitStore /\ [][NextStore]_vars

\* A producer posts extraction work to one ExtractorAgent while an external
\* sender pings it.
NextPool ==
    \/ \E a \in AllInstances : AgentStep(a)
    \/ \E work \in PoolWork : post_extract(work)
    \/ \E ty \in ClientTypes : client_send("extractor", ty)
    \/ client_listen

SpecPool == InitExtract /\ [][NextPool]_vars

\* The health check against DistillerAgent and StorageAgent (the other
\* agents are not running), while a producer posts work to them.
NextHealth ==
    \/ \E a \in AllInstances : AgentStep(a)
    \/ \E id \in {"distiller", "storage"}, ty \in PostTypes : post(id, ty)
    \/ HealthStep

SpecHealth == InitProbe /\ [][NextHealth]_vars

\* The pipeline monitor page: the user selects documents while the
\* responses of the API calls and the events of the streams arrive in any
\* order.
InitPage == InitWith({})

NextPage ==
    \/ \E c \in 1..MaxCalls, first \in Docs \cup {null}, task_id \in BOOLEAN :
          fetchProcessingDocuments(c, first, task_id)
    \/ \E docId \in Docs : selectDocument(docId)
    \/ \E c \in 1..MaxCalls, outcome \in {"task_id", "none", "rejected"} :
          documentsApi_get(c, outcome)
    \/ \E c \in 1..MaxCalls,
          status \in {"processing", "completed", "rejected"} :
          subscribeToTask(c, status)
    \/ \E s \in 1..MaxCalls : onComplete(s)
    \/ \E s \in 1..MaxCalls : onError(s)

SpecPage == InitPage /\ [][NextPage]_vars

\* Scheduling: every agent process and every coordinator run is a task of an
\* asyncio event loop (or a process of its own) and takes its next step when
\* it can; the external sender keeps reading its reply channel.  Nothing
\* obliges redis to fail or the sender to send.
Fairness ==
    /\ \A a \in AllInstances : WF_vars(AgentStep(a))
    /\ WF_vars(RunStep("t1"))
    /\ WF_vars(client_listen)

FairProbe == SpecProbe /\ Fairness

\* ------------------------------------------------------------- properties

CoordMid(t, c, k) == [by |-> "coordinator", task |-> t, stage |-> c, k |-> k]

Stages == {Calls[j] : j \in 1..Len(Calls)}

\* request mid is being waited for by run t
Waiting(t, mid) == pc[t] = "listen" /\ RequestMid(t) = mid

\* run t has consumed a reply for request mid
Answered(t, mid) == \E p \in consumed[t] : p[1] = mid

\* process a has published something in answer to request mid on channel ch
Responded(a, mid, ch) ==
    \E s \in sent : s[1] = [mid EXCEPT !.by = a] /\ s[2] = ch

\* the sender of request mid has given up waiting for it with a timeout; the
\* coordinator records str(TimeoutError) in the task's error list, the
\* external sender has no such step at all
TimedOut(mid) ==
    /\ mid.by = "coordinator"
    /\ task_status[mid.task].stage = "failed"
    /\ \E j \in 1..Len(task_status[mid.task].errors) :
          task_status[mid.task].errors[j] = "TimeoutError"

ProbeRequests ==
    {ClientMid(ty, k) : ty \in ClientTypes, k \in 1..MaxClient}
        \cup {CoordMid("t1", c, 0) : c \in {"distill", "store"}}

ReplyChannel(mid) ==
    IF mid.by = "client" THEN ClientReply ELSE response_queue(mid.task, mid.stage)

\* C1: every envelope with reply_to that an agent has read is followed by a
\* response published on its reply_to channel or by the sender's timeout,
\* whatever its type (known or unknown) and whatever the handler does.
C1_ResponseOrTimeout ==
    \A a \in {"distiller", "storage"} : \A mid \in ProbeRequests :
        (<<mid, a, 0>> \in got)
            ~> (Responded(a, mid, ReplyChannel(mid)) \/ TimedOut(mid))

\* C2: a coordinator request that is never answered by a matching response
\* does not keep the run waiting for ever: the wait ends with the matching
\* response or with the task failed.
C2_WaitEnds ==
    \A c \in {"distill", "store"} :
        Waiting("t1", CoordMid("t1", c, 0))
            ~> (Answered("t1", CoordMid("t1", c, 0))
                   \/ task_status["t1"].stage = "failed")

RECURSIVE BatchRequests(_)
BatchRequests(n) ==
    IF n = 0 THEN <<>>
    ELSE BatchRequests(n - 1) \o <<<<"extract", n>>, <<"quality", n>>, <<"merge", n>>>>

\* the requests of a run over a document of n batches, in order
ExpectedRequests(n) == <<<<"distill", 0>>>> \o BatchRequests(n) \o <<<<"store", 0>>>>

NumBatches(t) == (Len(loc[t].chunks) + batch_size - 1) \div batch_size

IsPrefix(s, r) == Len(s) <= Len(r) /\ s = SubSeq(r, 1, Len(s))

RequestOrder(t) ==
    /\ IsPrefix(reqlog[t], ExpectedRequests(NumBatches(t)))
    /\ Len(reqlog[t]) - Cardinality(consumed[t]) = IF pc[t] = "listen" THEN 1 ELSE 0
    /\ task_status[t].stage = "completed" =>
          /\ reqlog[t] = ExpectedRequests(NumBatches(t))
          /\ Answered(t, CoordMid(t, "store", 0))

Absorbing(t) ==
    task_status[t].stage \in {"failed", "completed"} =>
        task_status'[t] = task_status[t] /\ reqlog'[t] = reqlog[t]

C5_DistillFailureAborts ==
    (\E s \in sent : /\ s[1] = [CoordMid("t1", "distill", 0) EXCEPT !.by = "distiller"]
                     /\ s[2] = response_queue("t1", "distill")
                     /\ s[3] = "error")
        ~> (task_status["t1"].stage = "failed")

\* C6: every process_pdf call that has ended has given its caller a summary
\* with task_id, status and statistics, the status being that of the task
\* (completed or failed).
C6_SummaryAlways ==
    \A t \in Tasks :
        pc[t] \in {"returned", "raised"}
            => /\ {"task_id", "status", "statistics"} \subseteq DOMAIN ret[t]
               /\ ret[t].status = task_status[t].stage
               /\ ret[t].status \in {"completed", "failed"}

C10_FailureIsolated ==
    \A a \in failed_once :
        /\ running[a]
        /\ input_channel(agent_id(a)) \in subs[a]
        /\ apc[a] \in {"idle", "busy"}
        /\ (apc[a] = "idle" /\ inbox[a] # <<>>) => ENABLED _listen(a)

\* C10 witness: after a handler of the agent raised, a later envelope has
\* been dispatched to a handler of the same agent.
C10_Witness == \E a \in failed_once : apc[a] = "busy"

\* C11: every error envelope an agent has published carries the task_id and,
\* as original_type, the type of the request whose handler raised, was
\* published on the request's reply_to channel, or on the agent's output
\* channel when the request names none, and is the only thing the agent
\* published for that request (no success result, no second error).
C11_OneErrorEnvelope ==
    \A s \in sent :
        s[3] = "error" =>
            LET rq == s[5]
                body == Get(s[4], "payload", s[4])
            IN  /\ s[4].type = "error"
                /\ s[4].task_id = rq.task_id
                /\ body.task_id = rq.task_id
                /\ body.original_type = rq.type
                /\ s[2] = IF rq.reply_to # NoChannel THEN rq.reply_to
                          ELSE output_channel(agent_id(s[1].by))
                /\ \A s2 \in sent : s2[1] = s[1] => s2 = s

\* C11 witness: a handler has raised for a request with reply_to and for one
\* without, and the two error envelopes were published.
C11_Witness ==
    /\ \E s \in sent : s[3] = "error" /\ s[2] = response_queue("t1", "distill")
    /\ \E s \in sent : s[3] = "error" /\ s[2] = output_channel("distiller")

\* C12: a shutdown_ack is published while the agent's bus connection is
\* still open (stop() has not run yet); every shutdown request with reply_to
\* the agent is through with has its ack published; an agent that has
\* stopped has no handler running.
C12_AckBeforeStop ==
    /\ \A s \in sent : s[3] = "shutdown_ack" => s[6]
    /\ \A a \in AllInstances :
          (~running[a] /\ apc[a] \in {"idle", "exited"}) =>
              \E s \in sent : s[1].by = a /\ s[3] = "shutdown_ack"
    /\ \A a \in AllInstances :
          (~running[a] /\ apc[a] = "busy") => cur[a].env.type = "shutdown"

\* the dict a handler returned, out of the envelope that carried it
ResultOf(env) == Get(env, "payload", env)

\* C13: once a run has consumed its distill reply, the chunk list it goes on
\* with is the chunk list of the text_chunks result in that reply, and
\* total_chunks in the task state and in the summary is its length.
C13_ChunksOfDistiller ==
    \A t \in Tasks : \A p \in consumed[t] :
        p[1].stage = "distill" =>
            \A s \in sent :
                s[1] = p[2] =>
                    /\ loc[t].chunks = ResultOf(s[4]).chunks
                    /\ task_status[t].stage # "failed" =>
                          task_status[t].total_chunks = Len(ResultOf(s[4]).chunks)
                    /\ pc[t] = "returned" =>
                          ret[t].statistics.total_chunks = Len(ResultOf(s[4]).chunks)

ExtractReports(t) == SelectSeq(progress_log[t], LAMBDA r : r.stage = "extract")

RECURSIVE OutputsOfSucceeded(_, _)
OutputsOfSucceeded(chunks, key) ==
    IF chunks = <<>> THEN <<>>
    ELSE (IF _extract_sync(Head(chunks).content).kind = "ok"
            THEN _extract_sync(Head(chunks).content)[key] ELSE <<>>)
         \o OutputsOfSucceeded(Tail(chunks), key)

Succeeded(chunks) ==
    {i \in 1..Len(chunks) : _extract_sync(chunks[i].content).kind = "ok"}

\* C15: every batch_extraction_result counts as failed the chunks whose
\* extraction failed and as successful those whose extraction succeeded, and
\* its entities and relations are the outputs of the succeeded chunks, in
\* chunk order.
C15_BatchStatistics ==
    \A s \in sent :
        s[3] = "batch_extraction_result" =>
            LET chunks == s[5].payload.chunks
                res == ResultOf(s[4])
            IN  /\ res.statistics.total_chunks = Len(chunks)
                /\ res.statistics.successful = Cardinality(Succeeded(chunks))
                /\ res.statistics.failed = Len(chunks) - Cardinality(Succeeded(chunks))
                /\ res.entities = OutputsOfSucceeded(chunks, "entities")
                /\ res.relations = OutputsOfSucceeded(chunks, "relations")

Items(list) == {list[j] : j \in 1..Len(list)}

\* C16: in every quality_result, every approved entity has a name of two or
\* more characters and a non-empty label, and every approved relation has
\* different start and end names, both among the names of the approved
\* entities of the same result.
C16_ApprovedAreWellFormed ==
    \A s \in sent :
        s[3] = "quality_result" =>
            LET res == ResultOf(s[4])
                names == {e.name : e \in Items(res.entities)}
            IN  /\ \A e \in Items(res.entities) : Len(e.name) >= 2 /\ e.label # <<>>
                /\ \A r \in Items(res.relations) :
                      /\ r.start_entity.name # r.end_entity.name
                      /\ r.start_entity.name \in names
                      /\ r.end_entity.name \in names

\* C16 witness: a quality_result that approves an entity and a relation and
\* rejects something of its request.
C16_Witness ==
    \E s \in sent :
        /\ s[3] = "quality_result"
        /\ ResultOf(s[4]).entities # <<>>
        /\ ResultOf(s[4]).relations # <<>>
        /\ ResultOf(s[4]).rejected_reasons # <<>>

\* the weight of an approved item, in tenths
Weight(item, without) == IF item.description # "" THEN 10 ELSE without

RECURSIVE SumOfWeights(_, _)
SumOfWeights(list, without) ==
    IF list = <<>> THEN 0
    ELSE Weight(Head(list), without) + SumOfWeights(Tail(list), without)

\* C17: in every quality_result the confidence score lies in [0, 1], is 0
\* exactly when no entity and no relation is approved, and otherwise is the
\* mean of the weights of the approved items (entity 1.0 / 0.7, relation
\* 1.0 / 0.8, with / without description).
C17_ConfidenceIsMeanWeight ==
    \A s \in sent :
        s[3] = "quality_result" =>
            LET res == ResultOf(s[4])
                c == res.confidence_score
                n == Len(res.entities) + Len(res.relations)
            IN  /\ c.den > 0 /\ 0 <= c.num /\ c.num <= c.den
                /\ c.num = 0 <=> n = 0
                /\ n > 0 =>
                      c.num * (10 * n)
                          = (SumOfWeights(res.entities, 7)
                               + SumOfWeights(res.relations, 8)) * c.den

\* C17 witness: a quality_result with approved entities and relations whose
\* confidence is strictly between 0 and 1.
C17_Witness ==
    \E s \in sent :
        /\ s[3] = "quality_result"
        /\ ResultOf(s[4]).relations # <<>>
        /\ 0 < ResultOf(s[4]).confidence_score.num
        /\ ResultOf(s[4]).confidence_score.num < ResultOf(s[4]).confidence_score.den

\* C18: in every merge_result, original_count is the number of existing
\* entities plus the number of batch entities of the request, merged_count
\* the number of merged entities, merged_count <= original_count and
\* duplicates_found = original_count - merged_count >= 0.
C18_MergedCountBounded ==
    \A s \in sent :
        s[3] = "merge_result" =>
            LET res == ResultOf(s[4])
                st == res.statistics
                existing == Get(s[5].payload, "existing_kg", [x |-> 0])
                new == Get(s[5].payload, "batch", [x |-> 0])
            IN  /\ st.original_count
                      = Len(Get(existing, "entities", <<>>))
                          + Len(Get(new, "entities", <<>>))
                /\ st.merged_count = Len(res.merged_entities)
                /\ st.merged_count <= st.original_count
                /\ st.duplicates_found = st.original_count - st.merged_count
                /\ st.duplicates_found >= 0

\* C18 witness: a merge_result in which a duplicate was found and an entity
\* kept.
C18_Witness ==
    \E s \in sent :
        /\ s[3] = "merge_result"
        /\ ResultOf(s[4]).statistics.duplicates_found >= 1
        /\ ResultOf(s[4]).statistics.merged_count >= 1

\* C19: in every merge_result, the start and the end entity of every merged
\* relation are among the merged entities of the same result.
C19_EndpointsAmongMerged ==
    \A s \in sent :
        s[3] = "merge_result" =>
            LET res == ResultOf(s[4])
                names == {e.name : e \in Items(res.merged_entities)}
            IN  \A r \in Items(res.merged_relations) :
                    r.start_entity.name \in names /\ r.end_entity.name \in names

\* C20: whenever the store handler has returned, the Graph Store connection
\* it opened has been released, whichever call of the handler raised.
C20_ConnectionReleased ==
    \A a \in AllInstances : connector[a] # "open"

\* the stage whose helper listens on reply channel ch
StageOfQueue(ch) == IF Len(ch) = 2 THEN "distill" ELSE ch[3]

C22_StatusTracksStage ==
    \A t \in Tasks :
        /\ pc[t] = "listen" => task_status[t].stage = call[t]
        /\ pc[t] = "returned" => task_status[t].stage = "completed"
        /\ pc[t] = "raised" => task_status[t].stage = "failed"

\* C23: whenever an Extractor is running the extractions of an envelope on
\* its pool and a ping that names a reply channel waits on its input
\* channel, its receive loop can take the ping (without the extractions
\* ending first).
C23_LoopKeepsDraining ==
    \A a \in {"extractor_00", "extractor_01"} :
        (/\ apc[a] = "busy"
         /\ Extractions(cur[a].env) >= 1
         /\ inbox[a] # <<>>
         /\ Head(inbox[a]).env.type = "ping"
         /\ Head(inbox[a]).env.reply_to # NoChannel) => ENABLED _listen(a)

\* C24: an Extractor process has created at most max_workers
\* extraction-model clients (one per pool worker at most), whatever extract
\* and extract_batch messages it has handled.
C24_OneClientPerWorker ==
    \A a \in AllInstances : clients[a] <= max_workers

\* C25: the merged_count of every merge_result is the number of entities left
\* when the entities of the request, existing then batch, are deduplicated
\* at the similarity threshold the request carries.
C25_RequestThresholdDecides ==
    \A s \in sent :
        s[3] = "merge_result" =>
            LET p == s[5].payload
                existing == Get(Get(p, "existing_kg", [x |-> 0]), "entities", <<>>)
                new == Get(Get(p, "batch", [x |-> 0]), "entities", <<>>)
                all == existing \o new
            IN  ResultOf(s[4]).statistics.merged_count
                    = Len(Dedup(<<>>, [j \in 1..Len(all) |-> _dict_to_entity(all[j])],
                                Get(p, "threshold", threshold)))

\* the results published for run t of type ty and batch k
Results(t, ty, k) ==
    {ResultOf(s[4]) : s \in {x \in sent : x[3] = ty /\ x[1].task = t /\ x[1].k = k}}

\* the entity and relation lists a dict carries
Graph(d, es, rs) == <<Get(d, es, <<>>), Get(d, rs, <<>>)>>

\* the number of the last batch of run t that the Merger has answered
LastMerged(t) ==
    LET ks == {s[1].k : s \in {x \in sent : x[3] = "merge_result" /\ x[1].task = t}}
    IN  IF ks = {} THEN 0 ELSE CHOOSE k \in ks : \A l \in ks : l <= k

C27_HealthyIffRunning ==
    \A j \in 1..Len(agents) :
        health.health_status[agents[j]] # "none" =>
            (health.health_status[agents[j]] = "healthy"
                <=> agents[j] \in health.alive)

C29_CompletedOnlyIfStored ==
    \A t \in Tasks :
        (task_status[t].stage = "completed" \/ ret[t].status = "completed") =>
            \E p \in consumed[t] :
                /\ p[1].stage = "store"
                /\ \A s \in sent :
                      s[1] = p[2] => Get(ResultOf(s[4]), "status", "") = "success"

\* C30: when every selection was made by selectDocument (the fetch at mount
\* selected nothing), the page has at most one task-progress stream open
\* and at most one elapsed-time timer running.
C30_OneStreamOneTimer ==
    page.calls[1].doc = null =>
        /\ Cardinality(page.streams) <= 1
        /\ Cardinality(page.timers) <= 1

====
